---- MODULE Spec2Model ----
(***************************************************************************)
(* Emergency SOS backend (src/server.js): the contact-list and alert       *)
(* collections, the notification channel, and the request handlers of      *)
(* POST /api/emergency/contacts, POST /api/emergency/sos,                  *)
(* POST /api/emergency/resolve/:alertId and (in StatsSpec)                 *)
(* GET /api/emergency/stats/:userId; FormatSpec is the phone formatting    *)
(* of one channel call.  Every handler is an async                         *)
(* function: it runs atomically between two awaits, and other requests     *)
(* interleave at each await.  A process of the model is one request in     *)
(* flight; its pc names the await it is suspended at.                      *)
(***************************************************************************)
EXTENDS Integers, Sequences, FiniteSets, TLC

\* ------------------------------------------------------------ bounds
\* Requests the server handles in one behaviour.
MaxRequests == 4
\* Length of the longest contact list a client submits.
MaxContacts == 2

\* The instants of the clock (Date.now()): two tell "the same millisecond"
\* from "later".
Instants == 0..1
\* The random suffixes generateTrackId draws from.
Suffixes == {"K7Q2M"}

\* ------------------------------------------------------------ values
\* A JavaScript undefined / null in a string-valued field.
Undefined == "undefined"
\* An optional value: <<>> is undefined/null, <<v>> is the value v.
None == <<>>
Some(v) == <<v>>

Owners == {"u1"}
UserIds == Owners \cup {Undefined}

Ann == [name |-> "Ann", phone |-> "9876543210", isPrimary |-> TRUE]
Bob == [name |-> "Bob", phone |-> "9123456780", isPrimary |-> FALSE]
Cy == [name |-> "Cy", phone |-> "+91 98765-00000", isPrimary |-> TRUE]
Dee == [name |-> "Dee", phone |-> "919876500001", isPrimary |-> FALSE]
Roster == <<Bob, Ann, Cy, Dee>>
\* A contact the client sent without a name.
Nameless == [name |-> Undefined, phone |-> "9000000000", isPrimary |-> FALSE]

\* The contacts arrays of the request bodies: the first j contacts of the
\* roster, for j up to MaxContacts (the empty array among them), and an
\* invalid array.
ContactLists ==
  {SubSeq(Roster, 1, j) : j \in 0..MaxContacts} \cup {<<Nameless>>}

\* JavaScript truthiness of a string-valued field.
Truthy(s) == s # Undefined /\ s # ""
\* JavaScript truthiness of an optional number: undefined and 0 are falsy.
TruthyNum(o) == o # None /\ o[1] # 0

\* a || b on string-valued fields.
OrElse(a, b) == IF Truthy(a) THEN a ELSE b

\* ------------------------------------------------------------ schemas
\* emergencyContactSchema: one document per owner, or none.
NoContactDoc == [exists |-> FALSE, contacts |-> <<>>]
ContactDoc(cs) == [exists |-> TRUE, contacts |-> cs]

\* emergencyAlertSchema.alertType.enum
AlertTypes == {"sos", "accident", "medical", "threat", "other"}

VARIABLES
  contactDocs,         \* EmergencyContact collection: owner -> document
  alerts,              \* EmergencyAlert collection: sequence, _id = index
  isTwilioConfigured,  \* process-level flag, set once at startup
  now,                 \* the clock
  procs,               \* the requests in flight
  nreq                 \* requests accepted so far

vars == <<contactDocs, alerts, isTwilioConfigured, now, procs, nreq>>

\* ------------------------------------------------------------ requests
NoLocation == [present |-> FALSE, lat |-> None, lng |-> None]
Location(lat, lng) == [present |-> TRUE, lat |-> lat, lng |-> lng]

NoReq ==
  [userId |-> Undefined, contacts |-> <<>>, hasContacts |-> FALSE,
   location |-> NoLocation, message |-> Undefined, alertType |-> Undefined,
   userName |-> Undefined, alertId |-> 0]

NoStats == [sent |-> 0, failed |-> 0, total |-> 0]
NoRes == [status |-> 0, error |-> "", stats |-> NoStats, trackId |-> None]
\* The locals of the stats handler, which are its response.
NoCounts ==
  [totalAlerts |-> 0, activeAlerts |-> 0, resolvedAlerts |-> 0, emergencyContacts |-> 0]

\* The frame of a handler: its request, its locals, the calls it has made to
\* the notification channel (sends: the phone passed to each call), the _id of
\* the alert it has stored (savedId, 0 for none) and its response.  counts are
\* the locals of a stats request; messageOptions is the recipient a channel
\* call hands to the provider.
Idle ==
  [pc |-> "idle", op |-> "none", req |-> NoReq, contactDoc |-> NoContactDoc,
   trackId |-> None, notificationResults |-> <<>>, sentCount |-> 0,
   failedCount |-> 0, idx |-> 0, alert |-> None, savedId |-> 0,
   recipients |-> <<>>, sends |-> <<>>, res |-> NoRes, counts |-> NoCounts,
   messageOptions |-> None]

\* The response is written and the handler returns: its locals are gone.  The
\* frame keeps what the client and the channel saw of the request.
Finish(pr, res) ==
  [Idle EXCEPT !.pc = "done", !.op = pr.op, !.res = res,
               !.req = [NoReq EXCEPT !.userId = pr.req.userId, !.alertId = pr.req.alertId,
                                     !.location = pr.req.location],
               !.contactDoc = pr.contactDoc, !.trackId = pr.trackId,
               !.sends = pr.sends, !.savedId = pr.savedId, !.counts = pr.counts]

\* res.status(code).json({success: false, error})
Respond(pr, status, error) ==
  Finish(pr, [NoRes EXCEPT !.status = status, !.error = error])

Init ==
  /\ contactDocs = [u \in Owners |-> NoContactDoc]
  /\ alerts = <<>>
  /\ isTwilioConfigured \in BOOLEAN
  /\ now = 0
  /\ procs = [p \in 1..2 |-> Idle]
  /\ nreq = 0

\* The handler frames: the requests that can be in flight at the same time.
Frames == DOMAIN procs

\* The frames as the next step of the server finds them: the frame of a
\* handler that has returned is dropped.
Live == [q \in Frames |-> IF procs[q].pc = "done" THEN Idle ELSE procs[q]]

\* A new request arrives: it gets the first free handler frame.  Requests
\* arrive one after the other, except the last of a behaviour, which may arrive
\* while the one before it is in flight.
Free(p) == procs[p].pc \in {"idle", "done"}
Accept(p) ==
  /\ Free(p)
  /\ \A q \in Frames : q < p => ~Free(q)
  /\ nreq < MaxRequests
  /\ (\E q \in Frames : ~Free(q)) => nreq = MaxRequests - 1
  /\ nreq' = nreq + 1

\* ------------------------------------------------------------ contacts
InvalidContactsMsg == "Invalid request. userId and contacts array required."
ContactFieldsMsg == "Each contact must have a name and phone number."

\* POST /api/emergency/contacts: validation, then the upsert is issued.
ContactsRequest(p, userId, hasContacts, cs) ==
  /\ Accept(p)
  /\ LET pr == [Idle EXCEPT !.op = "contacts",
                            !.req = [NoReq EXCEPT !.userId = userId,
                                                  !.hasContacts = hasContacts,
                                                  !.contacts = cs]]
     IN procs' = [Live EXCEPT ![p] =
          IF ~Truthy(userId) \/ ~hasContacts
            THEN Respond(pr, 400, InvalidContactsMsg)
          ELSE IF \E i \in 1..Len(cs) : ~Truthy(cs[i].name) \/ ~Truthy(cs[i].phone)
            THEN Respond(pr, 400, ContactFieldsMsg)
          ELSE [pr EXCEPT !.pc = "contacts_update"]]
  /\ UNCHANGED <<contactDocs, alerts, isTwilioConfigured, now>>

\* EmergencyContact.findOneAndUpdate({userId}, {userId, contacts}, {upsert}).
ContactsUpdate(p) ==
  /\ procs[p].pc = "contacts_update"
  /\ contactDocs' = [contactDocs EXCEPT ![procs[p].req.userId] =
                       ContactDoc(procs[p].req.contacts)]
  /\ procs' = [Live EXCEPT ![p] = Respond(procs[p], 200, "")]
  /\ UNCHANGED <<alerts, isTwilioConfigured, now, nreq>>

\* ------------------------------------------------------------ channel
\* generateTrackId(): the timestamp and the random suffix.
generateTrackId == {<<now, r>> : r \in Suffixes}

ProviderErrorText == "provider error"

\* Faulty variant: the configuration test is missing and the provider is always
\* called.
sendWhatsAppMessageUnguarded ==
  {[status |-> "sent", sid |-> Some(<<"SM">>), error |-> None, provider |-> TRUE],
   [status |-> "failed", sid |-> None, error |-> Some(ProviderErrorText),
    provider |-> TRUE]}

\* sendWhatsAppMessage(to, message): the outcomes it can return.  Unconfigured,
\* it returns a simulated outcome without calling the provider; configured, the
\* provider call either succeeds or throws, and the throw becomes a failed
\* outcome.  provider tells whether twilioClient.messages.create was called.
sendWhatsAppMessage ==
  IF ~isTwilioConfigured
    THEN {[status |-> "simulated", sid |-> Some(<<"SIM", now>>), error |-> None,
           provider |-> FALSE]}
    ELSE {[status |-> "sent", sid |-> Some(<<"SM">>), error |-> None, provider |-> TRUE],
          [status |-> "failed", sid |-> None, error |-> Some(ProviderErrorText),
           provider |-> TRUE]}

\* ------------------------------------------------------------ sos
InvalidSosMsg == "Invalid request. userId and location required."
NoContactsMsg == "No emergency contacts found. Please add contacts first."
SosFailedMsg == "Failed to send emergency alert"

\* if (!userId || !location || !location.lat || !location.lng)
SosInvalid(req) ==
  \/ ~Truthy(req.userId)
  \/ ~req.location.present
  \/ ~TruthyNum(req.location.lat)
  \/ ~TruthyNum(req.location.lng)

\* Faulty variant: the length test is dropped.
NoContactsMissingOnly(doc) == ~doc.exists

\* if (!contactDoc || contactDoc.contacts.length === 0)
NoContacts(doc) == ~doc.exists \/ Len(doc.contacts) = 0

\* POST /api/emergency/sos: validation, then the contact lookup is issued.
SosRequest(p, req) ==
  /\ Accept(p)
  /\ LET pr == [Idle EXCEPT !.op = "sos", !.req = req]
     IN procs' = [Live EXCEPT ![p] =
          IF SosInvalid(req) THEN Respond(pr, 400, InvalidSosMsg)
          ELSE [pr EXCEPT !.pc = "sos_finding"]]
  /\ UNCHANGED <<contactDocs, alerts, isTwilioConfigured, now>>

\* EmergencyContact.findOne returns; the tracking id is generated and the
\* message composed (alertType.toUpperCase() throws on an undefined alertType,
\* which the handler's catch turns into a 500); the loop calls the channel for
\* the first contact (over an empty array the loop ends at once).
SosLoadContacts(p) ==
  /\ procs[p].pc = "sos_finding"
  /\ LET pr == procs[p]
         doc == contactDocs[pr.req.userId]
     IN \E t \in generateTrackId :
          procs' = [Live EXCEPT ![p] =
            IF NoContacts(doc) THEN Respond(pr, 400, NoContactsMsg)
            ELSE IF pr.req.alertType = Undefined THEN Respond(pr, 500, SosFailedMsg)
            ELSE IF Len(doc.contacts) = 0
              THEN [pr EXCEPT !.pc = "sos_saving", !.contactDoc = doc, !.trackId = Some(t)]
            ELSE [pr EXCEPT !.pc = "sos_sending", !.contactDoc = doc,
                            !.trackId = Some(t), !.idx = 1,
                            !.sends = <<doc.contacts[1].phone>>]]
  /\ UNCHANGED <<contactDocs, alerts, isTwilioConfigured, now, nreq>>

\* notificationResults.push({...}) for the contact and the outcome of its send.
DeliveryRecord(contact, result) ==
  [name |-> contact.name, phone |-> contact.phone, deliveryStatus |-> result.status,
   messageSid |-> result.sid, error |-> result.error]

\* Faulty variant: a simulated outcome is not counted as sent.
CountsAsSentOnlySent(result) == result.status = "sent"

\* if (result.status === 'sent' || result.status === 'simulated')
CountsAsSent(result) == result.status \in {"sent", "simulated"}

\* Faulty variant: a failed send propagates and the catch answers 500.
SosSendReturnAborting(p, result) ==
  /\ procs[p].pc = "sos_sending"
  /\ result \in sendWhatsAppMessage
  /\ LET pr == procs[p]
         contact == pr.contactDoc.contacts[pr.idx]
     IN procs' = [Live EXCEPT ![p] =
          IF result.status = "failed" THEN Respond(pr, 500, SosFailedMsg)
          ELSE [pr EXCEPT !.pc = "sos_pacing",
                          !.notificationResults = Append(@, DeliveryRecord(contact, result)),
                          !.sentCount = @ + 1]]
  /\ UNCHANGED <<contactDocs, alerts, isTwilioConfigured, now, nreq>>

\* Faulty variant: no pacing; the next send is issued as soon as the outcome is pushed.
SosSendReturnUnpaced(p, result) ==
  /\ procs[p].pc = "sos_sending"
  /\ result \in sendWhatsAppMessage
  /\ LET pr == procs[p]
         cs == pr.contactDoc.contacts
         pushed == [pr EXCEPT !.notificationResults = Append(@, DeliveryRecord(cs[pr.idx], result)),
                              !.sentCount = IF CountsAsSent(result) THEN @ + 1 ELSE @,
                              !.failedCount = IF CountsAsSent(result) THEN @ ELSE @ + 1]
     IN procs' = [Live EXCEPT ![p] =
          IF pr.idx < Len(cs)
            THEN [pushed EXCEPT !.idx = @ + 1, !.sends = Append(@, cs[pr.idx + 1].phone)]
            ELSE [pushed EXCEPT !.pc = "sos_saving"]]
  /\ UNCHANGED <<contactDocs, alerts, isTwilioConfigured, now, nreq>>

\* sendWhatsAppMessage returns: the record is pushed, the outcome counted, and
\* the pacing timer started.
SosSendReturn(p, result) ==
  /\ procs[p].pc = "sos_sending"
  /\ result \in sendWhatsAppMessage
  /\ LET pr == procs[p]
         contact == pr.contactDoc.contacts[pr.idx]
     IN procs' = [Live EXCEPT ![p] =
          [pr EXCEPT !.pc = "sos_pacing",
                     !.notificationResults = Append(@, DeliveryRecord(contact, result)),
                     !.sentCount = IF CountsAsSent(result) THEN @ + 1 ELSE @,
                     !.failedCount = IF CountsAsSent(result) THEN @ ELSE @ + 1]]
  /\ UNCHANGED <<contactDocs, alerts, isTwilioConfigured, now, nreq>>

\* The pacing timer fires: the loop calls the channel for the next contact, or,
\* after the last one, builds the alert and issues its save.
SosPaceElapsed(p) ==
  /\ procs[p].pc = "sos_pacing"
  /\ LET pr == procs[p]
         cs == pr.contactDoc.contacts
     IN procs' = [Live EXCEPT ![p] =
          IF pr.idx < Len(cs)
            THEN [pr EXCEPT !.pc = "sos_sending", !.idx = @ + 1,
                            !.sends = Append(@, cs[pr.idx + 1].phone)]
            ELSE [pr EXCEPT !.pc = "sos_saving"]]
  /\ UNCHANGED <<contactDocs, alerts, isTwilioConfigured, now, nreq>>

\* new EmergencyAlert({...})
NewAlert(pr) ==
  [userId |-> pr.req.userId, trackId |-> pr.trackId[1], location |-> pr.req.location,
   message |-> OrElse(pr.req.message, "Emergency SOS Alert"),
   alertType |-> OrElse(pr.req.alertType, "sos"), status |-> "active",
   contactsNotified |-> pr.notificationResults,
   userName |-> OrElse(pr.req.userName, "User"), resolvedAt |-> None]

\* Faulty variant: trackId has no unique index.
SaveRejectedNoIndex(doc) == doc.alertType \notin AlertTypes

\* alert.save() is rejected: schema validation (the alertType enum) or the
\* unique index on trackId.
SaveRejected(doc) ==
  \/ doc.alertType \notin AlertTypes
  \/ \E i \in 1..Len(alerts) : alerts[i].trackId = doc.trackId

\* Faulty variant: stats.total is taken from the owner's list as stored at the
\* time of the response.
SosSaveReturnLiveTotal(p) ==
  /\ procs[p].pc = "sos_saving"
  /\ LET pr == procs[p]
         doc == NewAlert(pr)
     IN IF SaveRejected(doc)
          THEN /\ procs' = [Live EXCEPT ![p] = Respond(pr, 500, SosFailedMsg)]
               /\ UNCHANGED alerts
          ELSE /\ alerts' = Append(alerts, doc)
               /\ procs' = [Live EXCEPT ![p] =
                    Finish([pr EXCEPT !.savedId = Len(alerts) + 1],
                           [status |-> 200, error |-> "",
                            stats |-> [sent |-> pr.sentCount, failed |-> pr.failedCount,
                                       total |-> Len(contactDocs[pr.req.userId].contacts)],
                            trackId |-> pr.trackId])]
  /\ UNCHANGED <<contactDocs, isTwilioConfigured, now, nreq>>

\* alert.save() returns: the alert is stored and the summary returned, or the
\* save has thrown and the catch answers 500.
SosSaveReturn(p) ==
  /\ procs[p].pc = "sos_saving"
  /\ LET pr == procs[p]
         doc == NewAlert(pr)
     IN IF SaveRejected(doc)
          THEN /\ procs' = [Live EXCEPT ![p] = Respond(pr, 500, SosFailedMsg)]
               /\ UNCHANGED alerts
          ELSE /\ alerts' = Append(alerts, doc)
               /\ procs' = [Live EXCEPT ![p] =
                    Finish([pr EXCEPT !.savedId = Len(alerts) + 1],
                           [status |-> 200, error |-> "",
                            stats |-> [sent |-> pr.sentCount, failed |-> pr.failedCount,
                                       total |-> Len(pr.contactDoc.contacts)],
                            trackId |-> pr.trackId])]
  /\ UNCHANGED <<contactDocs, isTwilioConfigured, now, nreq>>

\* ------------------------------------------------------------ resolve
NotFoundMsg == "Alert not found"

\* POST /api/emergency/resolve/:alertId: the update is issued.
ResolveRequest(p, alertId) ==
  /\ Accept(p)
  /\ procs' = [Live EXCEPT ![p] =
       [Idle EXCEPT !.op = "resolve", !.pc = "resolve_updating",
                    !.req = [NoReq EXCEPT !.alertId = alertId]]]
  /\ UNCHANGED <<contactDocs, alerts, isTwilioConfigured, now>>

\* Faulty variant: the update toggles the status.
ResolvedAlertToggling(doc) ==
  [doc EXCEPT !.status = IF @ = "resolved" THEN "active" ELSE "resolved",
              !.resolvedAt = Some(now)]

\* Faulty variant: the update replaces the document instead of setting two fields.
ResolvedAlertOverwriting(doc) ==
  [doc EXCEPT !.status = "resolved", !.resolvedAt = Some(now), !.contactsNotified = <<>>]

\* The update of findByIdAndUpdate: {status: 'resolved', resolvedAt: new Date()}.
ResolvedAlert(doc) == [doc EXCEPT !.status = "resolved", !.resolvedAt = Some(now)]

\* Faulty variant: the null check is missing; alert.userId throws where it is read.
ResolveUpdateNoCheck(p) ==
  /\ procs[p].pc = "resolve_updating"
  /\ LET pr == procs[p]
         id == pr.req.alertId
     IN IF id \notin 1..Len(alerts)
          THEN /\ procs' = [Live EXCEPT ![p] =
                    IF isTwilioConfigured THEN Respond(pr, 500, "Failed to resolve alert")
                    ELSE Respond(pr, 200, "")]
               /\ UNCHANGED alerts
          ELSE /\ alerts' = [alerts EXCEPT ![id] = ResolvedAlert(@)]
               /\ procs' = [Live EXCEPT ![p] =
                    IF isTwilioConfigured
                      THEN [pr EXCEPT !.pc = "resolve_finding",
                                      !.alert = Some(ResolvedAlert(alerts[id]))]
                      ELSE Respond(pr, 200, "")]
  /\ UNCHANGED <<contactDocs, isTwilioConfigured, now, nreq>>

\* Faulty variant: the contacts are looked up and notified whether or not the provider
\* is configured.
ResolveUpdateAlwaysNotifies(p) ==
  /\ procs[p].pc = "resolve_updating"
  /\ LET pr == procs[p]
         id == pr.req.alertId
     IN IF id \notin 1..Len(alerts)
          THEN /\ procs' = [Live EXCEPT ![p] = Respond(pr, 404, NotFoundMsg)]
               /\ UNCHANGED alerts
          ELSE /\ alerts' = [alerts EXCEPT ![id] = ResolvedAlert(@)]
               /\ procs' = [Live EXCEPT ![p] =
                    [pr EXCEPT !.pc = "resolve_finding",
                               !.alert = Some(ResolvedAlert(alerts[id]))]]
  /\ UNCHANGED <<contactDocs, isTwilioConfigured, now, nreq>>

\* Faulty variant: a guarded transition; only the resolve that finds the alert active
\* goes on to notify.
ResolveUpdateGuarded(p) ==
  /\ procs[p].pc = "resolve_updating"
  /\ LET pr == procs[p]
         id == pr.req.alertId
     IN IF id \notin 1..Len(alerts)
          THEN /\ procs' = [Live EXCEPT ![p] = Respond(pr, 404, NotFoundMsg)]
               /\ UNCHANGED alerts
          ELSE /\ alerts' = [alerts EXCEPT ![id] = ResolvedAlert(@)]
               /\ procs' = [Live EXCEPT ![p] =
                    IF isTwilioConfigured /\ alerts[id].status = "active"
                      THEN [pr EXCEPT !.pc = "resolve_finding",
                                      !.alert = Some(ResolvedAlert(alerts[id]))]
                      ELSE Respond(pr, 200, "")]
  /\ UNCHANGED <<contactDocs, isTwilioConfigured, now, nreq>>

\* findByIdAndUpdate returns the updated alert, or null for an unknown id.
\* Unconfigured, the handler answers at once; configured, it looks up the
\* owner's contacts.
ResolveUpdate(p) ==
  /\ procs[p].pc = "resolve_updating"
  /\ LET pr == procs[p]
         id == pr.req.alertId
     IN IF id \notin 1..Len(alerts)
          THEN /\ procs' = [Live EXCEPT ![p] = Respond(pr, 404, NotFoundMsg)]
               /\ UNCHANGED alerts
          ELSE /\ alerts' = [alerts EXCEPT ![id] = ResolvedAlert(@)]
               /\ procs' = [Live EXCEPT ![p] =
                    IF isTwilioConfigured
                      THEN [pr EXCEPT !.pc = "resolve_finding",
                                      !.alert = Some(ResolvedAlert(alerts[id]))]
                      ELSE Respond(pr, 200, "")]
  /\ UNCHANGED <<contactDocs, isTwilioConfigured, now, nreq>>

\* Faulty variant: the filter is dropped.
PrimaryContactsAll(cs) == cs

\* contactDoc.contacts.filter(c => c.isPrimary)
PrimaryContacts(cs) == SelectSeq(cs, LAMBDA c : c.isPrimary)

\* EmergencyContact.findOne({userId: alert.userId}) returns; the loop over the
\* primary contacts calls the channel for the first of them.
ResolveLoadContacts(p) ==
  /\ procs[p].pc = "resolve_finding"
  /\ LET pr == procs[p]
         doc == contactDocs[pr.alert[1].userId]
         to == PrimaryContacts(doc.contacts)
         found == [pr EXCEPT !.contactDoc = doc]
     IN procs' = [Live EXCEPT ![p] =
          IF NoContacts(doc) \/ Len(to) = 0 THEN Respond(found, 200, "")
          ELSE [found EXCEPT !.pc = "resolve_sending", !.recipients = to,
                             !.idx = 1, !.sends = <<to[1].phone>>]]
  /\ UNCHANGED <<contactDocs, alerts, isTwilioConfigured, now, nreq>>

\* sendWhatsAppMessage returns (its outcome is discarded): the loop calls the
\* channel for the next primary contact, or the handler answers.
ResolveSendReturn(p) ==
  /\ procs[p].pc = "resolve_sending"
  /\ LET pr == procs[p]
     IN procs' = [Live EXCEPT ![p] =
          IF pr.idx < Len(pr.recipients)
            THEN [pr EXCEPT !.idx = @ + 1,
                            !.sends = Append(@, pr.recipients[pr.idx + 1].phone)]
            ELSE Respond(pr, 200, "")]
  /\ UNCHANGED <<contactDocs, alerts, isTwilioConfigured, now, nreq>>

\* ------------------------------------------------------------ stats
\* EmergencyAlert.countDocuments({userId, status}) over the stored alerts.
countDocuments(userId, statuses) ==
  Cardinality({i \in 1..Len(alerts) :
                 alerts[i].userId = userId /\ alerts[i].status \in statuses})

\* GET /api/emergency/stats/:userId: the first count is issued.
StatsRequest(p, userId) ==
  /\ Accept(p)
  /\ procs' = [Live EXCEPT ![p] =
       [Idle EXCEPT !.op = "stats", !.pc = "stats_total",
                    !.req = [NoReq EXCEPT !.userId = userId]]]
  /\ UNCHANGED <<contactDocs, alerts, isTwilioConfigured, now>>

\* countDocuments({userId}) returns; the count of active alerts is issued.
StatsCountTotal(p) ==
  /\ procs[p].pc = "stats_total"
  /\ procs' = [Live EXCEPT ![p] =
       [procs[p] EXCEPT !.pc = "stats_active",
          !.counts.totalAlerts = countDocuments(procs[p].req.userId, {"active", "resolved"})]]
  /\ UNCHANGED <<contactDocs, alerts, isTwilioConfigured, now, nreq>>

\* Faulty variant: the status filter is missing.
StatsCountActiveUnfiltered(p) ==
  /\ procs[p].pc = "stats_active"
  /\ procs' = [Live EXCEPT ![p] =
       [procs[p] EXCEPT !.pc = "stats_resolved",
          !.counts.activeAlerts = countDocuments(procs[p].req.userId, {"active", "resolved"})]]
  /\ UNCHANGED <<contactDocs, alerts, isTwilioConfigured, now, nreq>>

\* countDocuments({userId, status: 'active'}) returns; the count of resolved
\* alerts is issued.
StatsCountActive(p) ==
  /\ procs[p].pc = "stats_active"
  /\ procs' = [Live EXCEPT ![p] =
       [procs[p] EXCEPT !.pc = "stats_resolved",
          !.counts.activeAlerts = countDocuments(procs[p].req.userId, {"active"})]]
  /\ UNCHANGED <<contactDocs, alerts, isTwilioConfigured, now, nreq>>

\* countDocuments({userId, status: 'resolved'}) returns; the contact lookup is
\* issued.
StatsCountResolved(p) ==
  /\ procs[p].pc = "stats_resolved"
  /\ procs' = [Live EXCEPT ![p] =
       [procs[p] EXCEPT !.pc = "stats_contacts",
          !.counts.resolvedAlerts = countDocuments(procs[p].req.userId, {"resolved"})]]
  /\ UNCHANGED <<contactDocs, alerts, isTwilioConfigured, now, nreq>>

\* EmergencyContact.findOne({userId}) returns and the handler answers.
StatsLoadContacts(p) ==
  /\ procs[p].pc = "stats_contacts"
  /\ LET doc == contactDocs[procs[p].req.userId]
         counted == [procs[p] EXCEPT !.counts.emergencyContacts =
                       IF doc.exists THEN Len(doc.contacts) ELSE 0]
     IN procs' = [Live EXCEPT ![p] = Respond(counted, 200, "")]
  /\ UNCHANGED <<contactDocs, alerts, isTwilioConfigured, now, nreq>>

\* ------------------------------------------------------------ phone format
\* A phone is a sequence of characters here.
Digit == {"0", "1", "2", "3", "4", "5", "6", "7", "8", "9"}
CountryCode == <<"9", "1">>
WhatsAppScheme == <<"whatsapp:+">>

\* phone.replace(/\D/g, '')
StripNonDigits(phone) == SelectSeq(phone, LAMBDA c : c \in Digit)

\* cleaned.startsWith(prefix)
StartsWith(cleaned, prefix) ==
  Len(cleaned) >= Len(prefix) /\ SubSeq(cleaned, 1, Len(prefix)) = prefix

\* formatWhatsAppNumber(phone)
formatWhatsAppNumber(phone) ==
  LET cleaned == StripNonDigits(phone)
  IN WhatsAppScheme \o
       (IF ~StartsWith(cleaned, CountryCode) /\ Len(cleaned) = 10
          THEN CountryCode \o cleaned
          ELSE cleaned)

\* sendWhatsAppMessage(to, message) with the provider configured: the message
\* options are built, to: formatWhatsAppNumber(to), and the provider is called.
ChannelFormat(p) ==
  /\ procs[p].pc = "send_called"
  /\ isTwilioConfigured
  /\ procs' = [procs EXCEPT ![p] =
       [@ EXCEPT !.pc = "send_creating",
                 !.messageOptions = Some(formatWhatsAppNumber(procs[p].sends[1]))]]
  /\ UNCHANGED <<contactDocs, alerts, isTwilioConfigured, now, nreq>>

\* ------------------------------------------------------------ clock
Tick ==
  /\ now + 1 \in Instants
  /\ now' = now + 1
  /\ UNCHANGED <<contactDocs, alerts, isTwilioConfigured, procs, nreq>>

\* ------------------------------------------------------------ inputs
\* The contacts request bodies: a body without a contacts array carries none.
ContactsBodies ==
  {<<u, TRUE, cs>> : u \in UserIds, cs \in ContactLists} \cup {<<u, FALSE, <<>> >> : u \in Owners}

Here == Location(Some(12), Some(77))
Locations == {NoLocation, Location(Some(12), None), Location(Some(0), Some(77)), Here}

SosBody(u, loc, type, msg, name) ==
  [NoReq EXCEPT !.userId = u, !.location = loc, !.alertType = type,
                !.message = msg, !.userName = name]

\* The sos request bodies: the complete body, and bodies that lack a field.
SosBodies ==
  {SosBody(u, loc, "medical", "help", "Asha") : u \in UserIds, loc \in Locations}
  \cup {SosBody(u, Here, Undefined, "help", "Asha") : u \in Owners}

Next ==
  \/ \E p \in Frames, b \in ContactsBodies : ContactsRequest(p, b[1], b[2], b[3])
  \/ \E p \in Frames : ContactsUpdate(p)
  \/ \E p \in Frames, b \in SosBodies : SosRequest(p, b)
  \/ \E p \in Frames : SosLoadContacts(p)
  \/ \E p \in Frames, r \in sendWhatsAppMessage : SosSendReturn(p, r)
  \/ \E p \in Frames : SosPaceElapsed(p)
  \/ \E p \in Frames : SosSaveReturn(p)
  \/ \E p \in Frames, id \in 1..(Len(alerts) + 1) : ResolveRequest(p, id)
  \/ \E p \in Frames : ResolveUpdate(p)
  \/ \E p \in Frames : ResolveLoadContacts(p)
  \/ \E p \in Frames : ResolveSendReturn(p)
  \/ Tick

Spec == Init /\ [][Next]_vars

\* The server with the stats requests.
StatsNext ==
  \/ Next
  \/ \E p \in Frames, u \in Owners : StatsRequest(p, u)
  \/ \E p \in Frames : StatsCountTotal(p)
  \/ \E p \in Frames : StatsCountActive(p)
  \/ \E p \in Frames : StatsCountResolved(p)
  \/ \E p \in Frames : StatsLoadContacts(p)

StatsSpec == Init /\ [][StatsNext]_vars

\* The phones the clients register: a national or international number of
\* seven to twelve digits, written with or without a leading sign, separators
\* and a trailing note.
Fill(n) == [i \in 1..n |-> "5"]
PhoneDigits ==
  {lead \o Fill(n) : lead \in {<<>>, <<"9">>, CountryCode, <<"1", "9">>, <<"0">>},
                     n \in 7..10}
PhoneInputs ==
  {pre \o SubSeq(d, 1, 3) \o sep \o SubSeq(d, 4, Len(d)) \o post :
     d \in PhoneDigits,
     pre \in {<<>>, <<"+">>},
     sep \in {<<>>, <<" ">>, <<"-">>},
     post \in {<<>>, <<" ", "x">>}}

\* One call of the notification channel, provider configured, for each phone.
FormatInit ==
  /\ contactDocs = [u \in Owners |-> NoContactDoc]
  /\ alerts = <<>>
  /\ isTwilioConfigured = TRUE
  /\ now = 0
  /\ nreq = 0
  /\ \E phone \in PhoneInputs :
       procs = [p \in 1..1 |->
                 [Idle EXCEPT !.op = "send", !.pc = "send_called", !.sends = <<phone>>]]

FormatNext == \E p \in Frames : ChannelFormat(p)

FormatSpec == FormatInit /\ [][FormatNext]_vars

\* ------------------------------------------------------------ properties
SosDone(p) == procs[p].op = "sos" /\ procs[p].pc = "done"
ResolveDone(p) == procs[p].op = "resolve" /\ procs[p].pc = "done"

Phones(cs) == [i \in 1..Len(cs) |-> cs[i].phone]
Count(records, statuses) ==
  Cardinality({i \in 1..Len(records) : records[i].deliveryStatus \in statuses})

\* C1: when the contact lookup of a triggerSOS finds no ContactList for the
\* owner, or one with zero contacts, the request ends there with the
\* no-contacts error (400), having called the notification channel zero times
\* and stored no Alert.
C1_NoContactsFails ==
  [][\A p \in Frames :
       LET u == procs[p].req.userId
       IN (/\ procs[p].pc = "sos_finding"
           /\ procs'[p] # procs[p]
           /\ (~contactDocs[u].exists \/ contactDocs[u].contacts = <<>>))
          => /\ procs'[p].pc = "done"
             /\ procs'[p].res.status = 400
             /\ procs'[p].res.error = NoContactsMsg
             /\ procs'[p].sends = <<>>
             /\ procs'[p].savedId = 0
             /\ alerts' = alerts]_vars

\* A trigger has just failed on a ContactList that exists and is empty, while
\* alerts of earlier triggers are stored.
C1_Witness ==
  \E p \in Frames :
    /\ SosDone(p)
    /\ procs[p].res.error = NoContactsMsg
    /\ contactDocs[procs[p].req.userId] = ContactDoc(<<>>)
    /\ Len(alerts) > 0

\* C2: a successful triggerSOS over a contact list of size K has stored an
\* Alert whose ledger has exactly K records, each with a deliveryStatus among
\* sent, simulated and failed; stats.sent is the number of sent or simulated
\* records, stats.failed the number of failed ones, and
\* sent + failed = K = stats.total.
C2_LedgerAccounting ==
  \A p \in Frames :
    (SosDone(p) /\ procs[p].res.status = 200) =>
      LET K == Len(procs[p].contactDoc.contacts)
          stats == procs[p].res.stats
          ledger == alerts[procs[p].savedId].contactsNotified
      IN /\ procs[p].savedId \in 1..Len(alerts)
         /\ Len(ledger) = K
         /\ \A i \in 1..K : ledger[i].deliveryStatus \in {"sent", "simulated", "failed"}
         /\ stats.sent = Count(ledger, {"sent", "simulated"})
         /\ stats.failed = Count(ledger, {"failed"})
         /\ stats.sent + stats.failed = K
         /\ stats.total = K

\* A successful trigger over two contacts, one send delivered and one failed.
C2_Witness ==
  \E p \in Frames :
    /\ SosDone(p)
    /\ procs[p].res.status = 200
    /\ procs[p].res.stats = [sent |-> 1, failed |-> 1, total |-> 2]

\* C3: a failed send does not abort a dispatch.  A trigger that has called
\* the channel at all ends having called it once for every contact of its
\* list, in order; the save of its Alert is refused only by the store (a
\* tracking id that exists, an alertType outside the enum), never because of
\* failed sends; and the stored ledger holds each failure as a failed record
\* with the provider's error text, counted in stats.failed.
C3_SaveOutcome(p) ==
  (/\ procs[p].pc = "sos_saving"
   /\ procs'[p] # procs[p]
   /\ procs[p].req.alertType \in AlertTypes
   /\ \A i \in 1..Len(alerts) : alerts[i].trackId # procs[p].trackId[1])
  => /\ procs'[p].res.status = 200
     /\ procs'[p].savedId = Len(alerts) + 1
     /\ Len(alerts') = Len(alerts) + 1

C3_Completed(p) ==
  (SosDone(p) /\ procs[p].sends # <<>>) =>
    /\ procs[p].sends = Phones(procs[p].contactDoc.contacts)
    /\ procs[p].res.status = 200 =>
         LET ledger == alerts[procs[p].savedId].contactsNotified
         IN /\ procs[p].res.stats.failed = Count(ledger, {"failed"})
            /\ \A i \in 1..Len(ledger) :
                 (ledger[i].error = Some(ProviderErrorText))
                   <=> (ledger[i].deliveryStatus = "failed")

C3_FailureIsolated ==
  [][\A p \in Frames : C3_SaveOutcome(p) /\ C3_Completed(p)']_vars

\* A successful trigger over two contacts whose first send failed and whose
\* second was delivered.
C3_Witness ==
  \E p \in Frames :
    /\ SosDone(p)
    /\ procs[p].res.status = 200
    /\ LET ledger == alerts[procs[p].savedId].contactsNotified
       IN /\ Len(ledger) = 2
          /\ ledger[1].deliveryStatus = "failed"
          /\ ledger[2].deliveryStatus = "sent"

\* C4: every Alert enters the store with status active, its status is always
\* active or resolved, and an Alert that is resolved stays resolved under
\* every operation (no Alert is removed either).
C4_ResolvedIsTerminal ==
  [][/\ Len(alerts') >= Len(alerts)
     /\ \A i \in 1..Len(alerts') :
          /\ alerts'[i].status \in {"active", "resolved"}
          /\ i > Len(alerts) => alerts'[i].status = "active"
          /\ (i <= Len(alerts) /\ alerts[i].status = "resolved")
               => alerts'[i].status = "resolved"]_vars

\* Two resolves of the same Alert have both applied their update.
C4_Witness ==
  \E p, q \in Frames :
    /\ p # q
    /\ procs[p].op = "resolve" /\ procs[q].op = "resolve"
    /\ procs[p].req.alertId = procs[q].req.alertId
    /\ procs[p].pc = "done" /\ procs[p].res.status = 200
    /\ procs[q].pc \in {"resolve_finding", "resolve_sending"}
    /\ alerts[procs[p].req.alertId].status = "resolved"

\* C5: the resolution timestamp is stamped exactly once: an operation on an
\* Alert that is already resolved leaves it resolved and leaves resolvedAt at
\* the time of the first resolution.
C5_StampedOnce ==
  [][\A i \in 1..Len(alerts) :
       alerts[i].status = "resolved" =>
         /\ alerts'[i].status = "resolved"
         /\ alerts'[i].resolvedAt = alerts[i].resolvedAt]_vars

\* C6: when the update of a resolve finds no Alert with the given id, the
\* request ends there with the not-found error (404), having called the
\* notification channel zero times, and every stored Alert and ContactList is
\* as it was.
C6_UnknownIdNotFound ==
  [][\A p \in Frames :
       (/\ procs[p].pc = "resolve_updating"
        /\ procs'[p] # procs[p]
        /\ procs[p].req.alertId \notin 1..Len(alerts))
       => /\ procs'[p].pc = "done"
          /\ procs'[p].res.status = 404
          /\ procs'[p].res.error = NotFoundMsg
          /\ procs'[p].sends = <<>>
          /\ alerts' = alerts
          /\ contactDocs' = contactDocs]_vars

\* A resolve of an unknown id has just failed while an Alert and a ContactList
\* with a primary contact are stored.
C6_Witness ==
  \E p \in Frames :
    /\ ResolveDone(p)
    /\ procs[p].res.status = 404
    /\ Len(alerts) > 0
    /\ \E u \in Owners : \E k \in 1..Len(contactDocs[u].contacts) :
         contactDocs[u].contacts[k].isPrimary

\* C7: every phone a resolve passes to the notification channel is the phone
\* of a contact flagged isPrimary in the ContactList the resolve has read, and
\* that list is the owner's ContactList as stored at the time of the read
\* (not the contacts of the Alert's ledger).
C7_OnlyPrimariesNotified ==
  [][\A p \in Frames :
       procs'[p].op = "resolve" =>
         LET cs == procs'[p].contactDoc.contacts
         IN /\ \A i \in 1..Len(procs'[p].sends) :
                 \E k \in 1..Len(cs) : cs[k].isPrimary /\ cs[k].phone = procs'[p].sends[i]
            /\ (procs[p].pc = "resolve_finding" /\ procs'[p] # procs[p])
                 => procs'[p].contactDoc =
                      contactDocs[alerts[procs[p].req.alertId].userId]]_vars

\* A resolve has notified a primary contact that is not in the ledger of the
\* Alert, whose ledger holds a contact that is not notified.
C7_Witness ==
  \E p \in Frames :
    /\ procs[p].op = "resolve"
    /\ procs[p].sends # <<>>
    /\ LET ledger == alerts[procs[p].req.alertId].contactsNotified
       IN /\ Len(ledger) > 0
          /\ \A i \in 1..Len(ledger), j \in 1..Len(procs[p].sends) :
               ledger[i].phone # procs[p].sends[j]

PrimaryPhones(cs) == Phones(SelectSeq(cs, LAMBDA c : c.isPrimary))

\* C8 as stated: whatever the channel's configuration, a resolve answered 200
\* has called the notification channel exactly once for each contact flagged
\* primary in the owner's ContactList.
C8_Original ==
  \A p \in Frames :
    (ResolveDone(p) /\ procs[p].res.status = 200) =>
      procs[p].sends =
        PrimaryPhones(contactDocs[alerts[procs[p].req.alertId].userId].contacts)

\* C8, amended: with the provider configured, a resolve answered 200 has
\* called the notification channel exactly once for each contact flagged
\* primary in the ContactList it has read, in list order; with the provider
\* not configured it has made no call at all.
C8_ResolveNotifiesPrimaries ==
  \A p \in Frames :
    (ResolveDone(p) /\ procs[p].res.status = 200) =>
      /\ isTwilioConfigured => procs[p].sends = PrimaryPhones(procs[p].contactDoc.contacts)
      /\ ~isTwilioConfigured => procs[p].sends = <<>>

\* Configured, the owner has Bob (not primary) and Ann (primary): the resolve
\* has made one call, to Ann.
C8_Witness ==
  \E p \in Frames :
    /\ ResolveDone(p)
    /\ isTwilioConfigured
    /\ procs[p].contactDoc = ContactDoc(<<Bob, Ann>>)
    /\ procs[p].sends = <<Ann.phone>>

\* C9: no operation changes the delivery ledger, trackingCode, ownerId,
\* location, message or alertType of a stored Alert, and no Alert leaves the
\* store.
C9_AlertFrame ==
  [][/\ Len(alerts') >= Len(alerts)
     /\ \A i \in 1..Len(alerts) :
          /\ alerts'[i].contactsNotified = alerts[i].contactsNotified
          /\ alerts'[i].trackId = alerts[i].trackId
          /\ alerts'[i].userId = alerts[i].userId
          /\ alerts'[i].location = alerts[i].location
          /\ alerts'[i].message = alerts[i].message
          /\ alerts'[i].alertType = alerts[i].alertType]_vars

\* A resolved Alert with a ledger of two records, whose owner's ContactList has
\* been replaced by a shorter one since.
C9_Witness ==
  \E i \in 1..Len(alerts) :
    /\ alerts[i].status = "resolved"
    /\ Len(alerts[i].contactsNotified) = 2
    /\ contactDocs[alerts[i].userId].exists
    /\ Len(contactDocs[alerts[i].userId].contacts) < 2

\* C10: no two stored Alerts have the same trackingCode; a save of an Alert
\* whose trackingCode is already stored fails (the trigger answers 500) and
\* leaves the store as it was.
C10_TrackIdUnique ==
  [][/\ \A i, j \in 1..Len(alerts') :
          alerts'[i].trackId = alerts'[j].trackId => i = j
     /\ \A p \in Frames :
          (/\ procs[p].pc = "sos_saving"
           /\ procs'[p] # procs[p]
           /\ \E i \in 1..Len(alerts) : alerts[i].trackId = procs[p].trackId[1])
          => /\ procs'[p].pc = "done"
             /\ procs'[p].res.status = 500
             /\ procs'[p].savedId = 0
             /\ alerts' = alerts]_vars

\* A trigger that has sent its messages has just failed on a trackingCode
\* that a stored Alert has.
C10_Witness ==
  \E p \in Frames :
    /\ SosDone(p)
    /\ procs[p].res.status = 500
    /\ procs[p].sends # <<>>
    /\ \E i \in 1..Len(alerts) : Some(alerts[i].trackId) = procs[p].trackId

\* C11: when the store refuses a trigger's Alert only because its
\* trackingCode is already stored, the trigger regenerates the code and
\* retries the creation: that first collision does not make the trigger fail.
C11_RetriesOnCollision ==
  [][\A p \in Frames :
       (/\ procs[p].pc = "sos_saving"
        /\ procs'[p] # procs[p]
        /\ procs[p].req.alertType \in AlertTypes
        /\ \E i \in 1..Len(alerts) : alerts[i].trackId = procs[p].trackId[1])
       => ~(procs'[p].pc = "done" /\ procs'[p].res.status = 500)]_vars

\* C12: with the provider not configured, every call of the notification
\* channel returns status simulated with a locally generated id and no error,
\* without calling the provider; every ledger record, pushed or stored, is
\* simulated, and every trigger's stats.failed is 0.
C12_UnconfiguredSimulates ==
  ~isTwilioConfigured =>
    /\ \A r \in sendWhatsAppMessage :
         /\ r.status = "simulated"
         /\ r.sid = Some(<<"SIM", now>>)
         /\ r.error = None
         /\ ~r.provider
    /\ \A i \in 1..Len(alerts) : \A j \in 1..Len(alerts[i].contactsNotified) :
         LET rec == alerts[i].contactsNotified[j]
         IN rec.deliveryStatus = "simulated" /\ rec.messageSid # None /\ rec.error = None
    /\ \A p \in Frames :
         /\ \A j \in 1..Len(procs[p].notificationResults) :
              procs[p].notificationResults[j].deliveryStatus = "simulated"
         /\ procs[p].failedCount = 0
         /\ SosDone(p) => procs[p].res.stats.failed = 0

\* Unconfigured, a trigger over two contacts has stored its Alert: two
\* simulated records, stats 2 sent, 0 failed.
C12_Witness ==
  /\ ~isTwilioConfigured
  /\ \E p \in Frames :
       /\ SosDone(p)
       /\ procs[p].res.stats = [sent |-> 2, failed |-> 0, total |-> 2]
       /\ Count(alerts[procs[p].savedId].contactsNotified, {"simulated"}) = 2

\* C13: a trigger is answered with the validation error (400) exactly when
\* its ownerId is missing or a coordinate of its location is missing, and then
\* it has made no send and stored no Alert; a request with ownerId, lat and
\* lng present, whatever the numbers (0 among them), passes validation.
C13_ValidationExact ==
  \A p \in Frames :
    SosDone(p) =>
      LET req == procs[p].req
          missing == \/ req.userId = Undefined
                     \/ ~req.location.present
                     \/ req.location.lat = None
                     \/ req.location.lng = None
      IN /\ (procs[p].res.error = InvalidSosMsg) <=> missing
         /\ procs[p].res.error = InvalidSosMsg =>
              /\ procs[p].res.status = 400
              /\ procs[p].sends = <<>>
              /\ procs[p].savedId = 0

\* C14: message, alertType and ownerName are optional.  A trigger whose
\* contact lookup finds a non-empty list goes on to send, whichever optional
\* fields its request has; and its save, unless the trackingCode is already
\* stored, stores an active Alert (alertType sos when omitted) and answers 200.
C14_OptionalFields ==
  [][\A p \in Frames :
       /\ (/\ procs[p].pc = "sos_finding"
           /\ procs'[p] # procs[p]
           /\ ~NoContacts(contactDocs[procs[p].req.userId]))
          => /\ procs'[p].pc = "sos_sending"
             /\ procs'[p].sends = <<contactDocs[procs[p].req.userId].contacts[1].phone>>
       /\ (/\ procs[p].pc = "sos_saving"
           /\ procs'[p] # procs[p]
           /\ \A i \in 1..Len(alerts) : alerts[i].trackId # procs[p].trackId[1])
          => /\ procs'[p].res.status = 200
             /\ Len(alerts') = Len(alerts) + 1
             /\ alerts'[Len(alerts')].status = "active"
             /\ alerts'[Len(alerts')].alertType =
                  (IF procs[p].req.alertType = Undefined THEN "sos"
                   ELSE procs[p].req.alertType)]_vars

\* The dispatch loop of a trigger in the frame pr: it has called the channel
\* for the first idx contacts of its list, in order; all the outcomes but that
\* of a send in flight are in its ledger; record j is that of contact j.
C15_InOrder(pr) ==
  (pr.op = "sos" /\ pr.pc \in {"sos_sending", "sos_pacing", "sos_saving"}) =>
    LET cs == pr.contactDoc.contacts
        n == Len(pr.notificationResults)
    IN /\ pr.idx <= Len(cs)
       /\ pr.sends = SubSeq(Phones(cs), 1, pr.idx)
       /\ n = (IF pr.pc = "sos_sending" THEN pr.idx - 1 ELSE pr.idx)
       /\ pr.pc = "sos_saving" => pr.idx = Len(cs)
       /\ \A j \in 1..n :
            /\ pr.notificationResults[j].name = cs[j].name
            /\ pr.notificationResults[j].phone = cs[j].phone

\* C15: the sends of one dispatch are sequential and in list order: at most
\* one is in flight, the send to contact i+1 is issued only by the step that
\* ends the pacing suspension after the outcome of contact i was pushed, and
\* the j-th ledger record carries the name and phone of the j-th contact.
C15_SequentialInOrder ==
  [][\A p \in Frames :
       /\ C15_InOrder(procs'[p])
       /\ (procs'[p].op = "sos" /\ Len(procs'[p].sends) > Len(procs[p].sends)) =>
            /\ Len(procs'[p].sends) = Len(procs[p].sends) + 1
            /\ IF procs[p].sends = <<>>
                 THEN procs[p].pc = "sos_finding"
                 ELSE /\ procs[p].pc = "sos_pacing"
                      /\ Len(procs[p].notificationResults) = Len(procs[p].sends)]_vars

\* The send to the second contact is in flight; the ledger holds the outcome
\* of the first.
C15_Witness ==
  \E p \in Frames :
    /\ procs[p].op = "sos" /\ procs[p].pc = "sos_sending"
    /\ procs[p].sends = <<Bob.phone, Ann.phone>>
    /\ Len(procs[p].notificationResults) = 1
    /\ procs[p].notificationResults[1].name = Bob.name

\* C16: every trigger that passes validation and the contact check ends by
\* storing one Alert whose ledger has a record for every send it made: no
\* trigger ends otherwise, and no send is left without a stored Alert.
C16_EveryDispatchStored ==
  \A p \in Frames :
    (SosDone(p) /\ procs[p].res.error \notin {InvalidSosMsg, NoContactsMsg}) =>
      /\ procs[p].savedId \in 1..Len(alerts)
      /\ procs[p].res.status = 200
      /\ Len(alerts[procs[p].savedId].contactsNotified) = Len(procs[p].sends)

\* C17: a trigger dispatches to the list it loaded: the list in its frame is
\* the stored one at the time of the lookup and no step of another request
\* changes it; every send goes to a contact of that list, and a trigger
\* answered 200 has sent to exactly that list, its ledger length and
\* stats.total being the size of that list whatever the stored list is then.
C17_DispatchUsesLoadedList ==
  [][\A p \in Frames :
       /\ (procs[p].pc = "sos_finding" /\ procs'[p].pc = "sos_sending")
            => procs'[p].contactDoc = contactDocs[procs[p].req.userId]
       /\ (procs[p].op = "sos" /\ procs[p].pc \in {"sos_sending", "sos_pacing", "sos_saving"})
            => LET loaded == procs[p].contactDoc.contacts
               IN /\ procs'[p].contactDoc = procs[p].contactDoc
                  /\ procs'[p].sends = SubSeq(Phones(loaded), 1, Len(procs'[p].sends))
                  /\ (procs'[p].pc = "done" /\ procs'[p].res.status = 200) =>
                       /\ procs'[p].sends = Phones(loaded)
                       /\ Len(alerts'[procs'[p].savedId].contactsNotified) = Len(loaded)
                       /\ procs'[p].res.stats.total = Len(loaded)]_vars

\* A trigger that loaded two contacts is answered 200 with total 2 after the
\* owner's list was replaced by a shorter one during its dispatch.
C17_Witness ==
  \E p \in Frames :
    /\ SosDone(p)
    /\ procs[p].res.status = 200
    /\ procs[p].res.stats.total = 2
    /\ Len(procs[p].sends) = 2
    /\ contactDocs[procs[p].req.userId].exists
    /\ Len(contactDocs[procs[p].req.userId].contacts) < 2

\* C18: nothing makes resolves of one Alert exclusive.  With the provider
\* configured, the update of a resolve of a stored Alert goes on to the
\* contact lookup also when the Alert is already resolved, and the lookup goes
\* on to send to the first primary contact whatever another resolve has sent.
C18_ResolveNotExclusive ==
  [][\A p \in Frames :
       /\ (/\ procs[p].pc = "resolve_updating"
           /\ procs'[p] # procs[p]
           /\ procs[p].req.alertId \in 1..Len(alerts)
           /\ isTwilioConfigured)
          => procs'[p].pc = "resolve_finding"
       /\ (/\ procs[p].pc = "resolve_finding"
           /\ procs'[p] # procs[p]
           /\ PrimaryPhones(contactDocs[procs[p].alert[1].userId].contacts) # <<>>)
          => /\ procs'[p].pc = "resolve_sending"
             /\ procs'[p].sends =
                  <<PrimaryPhones(contactDocs[procs[p].alert[1].userId].contacts)[1]>>]_vars

\* Two resolves of the same Alert have each called the channel for the same
\* primary contact.
C18_Witness ==
  \E p, q \in Frames :
    /\ p # q
    /\ procs[p].op = "resolve" /\ procs[q].op = "resolve"
    /\ procs[p].req.alertId = procs[q].req.alertId
    /\ procs[p].sends # <<>> /\ procs[q].sends # <<>>
    /\ procs[p].sends[1] = procs[q].sends[1]

\* C19: the number handed to the provider is the phone with every non-digit
\* character removed, prefixed with 91 when exactly 10 digits remain (whatever
\* their leading digits), and unchanged otherwise.
C19_Normalised ==
  \A p \in Frames :
    procs[p].pc = "send_creating" =>
      LET digits == SelectSeq(procs[p].sends[1], LAMBDA c : c \in Digit)
      IN procs[p].messageOptions[1] =
           WhatsAppScheme \o (IF Len(digits) = 10 THEN <<"9", "1">> \o digits ELSE digits)

StatsDone(p) == procs[p].op = "stats" /\ procs[p].pc = "done"

\* C20 as stated: in every stats response,
\* totalAlerts = activeAlerts + resolvedAlerts.
C20_SelfConsistent ==
  \A p \in Frames :
    StatsDone(p) =>
      procs[p].counts.totalAlerts =
        procs[p].counts.activeAlerts + procs[p].counts.resolvedAlerts

\* C20, amended: each count of a stats request is the store's count at the
\* time of its query; every response has
\* totalAlerts <= activeAlerts + resolvedAlerts, and the two are equal
\* whenever the store, at the third query, still has the total and the active
\* count that the first two queries returned.
C20_CountsAtQueryTime ==
  [][\A p \in Frames :
       LET u == procs[p].req.userId
           mine == {i \in 1..Len(alerts) : alerts[i].userId = u}
           active == {i \in mine : alerts[i].status = "active"}
           resolved == {i \in mine : alerts[i].status = "resolved"}
           before == procs[p].counts
           after == procs'[p].counts
       IN /\ (procs[p].pc = "stats_total" /\ procs'[p] # procs[p])
               => after.totalAlerts = Cardinality(mine)
          /\ (procs[p].pc = "stats_active" /\ procs'[p] # procs[p])
               => after.activeAlerts = Cardinality(active)
          /\ (procs[p].pc = "stats_resolved" /\ procs'[p] # procs[p])
               => /\ after.resolvedAlerts = Cardinality(resolved)
                  /\ (/\ before.totalAlerts = Cardinality(mine)
                      /\ before.activeAlerts = Cardinality(active))
                     => after.totalAlerts = after.activeAlerts + after.resolvedAlerts
          /\ (procs'[p].op = "stats" /\ procs'[p].pc = "done")
               => after.totalAlerts <= after.activeAlerts + after.resolvedAlerts]_vars

\* A stats response with one alert in total, one active and one resolved: the
\* alert was resolved between the second and the third count.
C20_Witness ==
  \E p \in Frames :
    /\ StatsDone(p)
    /\ procs[p].counts.totalAlerts = 1
    /\ procs[p].counts.activeAlerts = 1
    /\ procs[p].counts.resolvedAlerts = 1
====
